---- MODULE Spec2Model ----
(***************************************************************************)
(* Model of the HTML-map generator build-map.js: loadJSON, extractFeatures *)
(* and the main script (empty-result guard, write of map.html).            *)
(* Also the KML builder json-to-kml.js: pointPlacemark, linePlacemark,    *)
(* buildKml and its try/catch script.                                     *)
(*                                                                         *)
(* A parsed JSON value is a tagged record: [k |-> tag] for undefined and   *)
(* null, [k |-> tag, v |-> payload] for booleans, numbers, strings, arrays *)
(* (payload: a sequence of values) and objects (payload: a record from     *)
(* property names to values).                                              *)
(***************************************************************************)
EXTENDS Integers, Sequences, FiniteSets, TLC

VARIABLES file, json, pc, features, mi, pi, written, exitCode, kmlI, allPlacemarks

vars == <<file, json, pc, features, mi, pi, written, exitCode, kmlI, allPlacemarks>>

(* ---------------- bounds of the explored inputs ---------------- *)
MaxMissions == 2
MaxPortals == 2
MaxFlat == 2
MaxFeatures == 2

(* ---------------- JavaScript values ---------------- *)
Undef == [k |-> "undefined"]
Null == [k |-> "null"]
Bool(b) == [k |-> "boolean", v |-> b]
Num(n) == [k |-> "number", v |-> n]
Str(s) == [k |-> "string", v |-> s]
Arr(a) == [k |-> "array", v |-> a]
Obj(o) == [k |-> "object", v |-> o]
EmptyObj == Obj([f \in {} |-> Undef])

\* null and undefined: reading a property of either raises TypeError
Nullish(x) == x.k \in {"undefined", "null"}

\* ToBoolean: undefined, null, false, 0 and "" are falsy
Truthy(x) ==
  CASE x.k \in {"undefined", "null"} -> FALSE
    [] x.k = "boolean" -> x.v
    [] x.k = "number" -> x.v # 0
    [] x.k = "string" -> x.v # ""
    [] OTHER -> TRUE

\* x.f for a non-nullish x; an own property of an object, undefined otherwise
\* (the property names read by the program are not array or string members)
Get(x, f) == IF x.k = "object" /\ f \in DOMAIN x.v THEN x.v[f] ELSE Undef

\* a[i] with a 0-based index
At(a, i) == IF a.k = "array" /\ i + 1 \in DOMAIN a.v THEN a.v[i + 1] ELSE Undef

\* a || b
Or(a, b) == IF Truthy(a) THEN a ELSE b

TypeofNumber(x) == x.k = "number"

IsArray(x) == x.k = "array"

\* sequences over S of length at most n
SeqUpTo(S, n) == UNION {[1..m -> S] : m \in 0..n}

\* an object literal: the properties of fs whose value is not undefined
Prune(fs) == Obj([f \in {g \in DOMAIN fs : fs[g] # Undef} |-> fs[f]])

(* ---------------- extractFeatures ---------------- *)

\* the feature literal pushed by both loops
Feature(title, lng, lat) ==
  Obj([type |-> Str("Feature"),
       properties |-> Obj([title |-> title]),
       geometry |-> Obj([type |-> Str("Point"), coordinates |-> Arr(<<lng, lat>>)])])

\* json.type === 'FeatureCollection' && Array.isArray(json.features)
isFeatureCollection(j) ==
  Get(j, "type") = Str("FeatureCollection") /\ IsArray(Get(j, "features"))

\* return json.features, keeping only the entries that carry a Point geometry
passthroughValidated(j) ==
  SelectSeq(Get(j, "features").v,
            LAMBDA f : ~Nullish(f) /\ IsArray(Get(Get(f, "geometry"), "coordinates")))

\* return json.features
passthrough(j) == Get(j, "features").v

\* Array.isArray(json) && json.length: the operands evaluated before json[0].lat
isNonEmptyArray(j) == IsArray(j) /\ Len(j.v) # 0

\* typeof json[0].lat === 'number', for a json[0] that is not nullish
isFlatList(j) == TypeofNumber(Get(At(j, 0), "lat"))

\* p.title || p.name || ''
flatTitle(p) == Or(Or(Get(p, "title"), Get(p, "name")), Str(""))

\* the feature pushed for one element of the flat list
flatFeature(p) == Feature(flatTitle(p), Get(p, "lng"), Get(p, "lat"))

\* mission.portals || []
portalsOf(mission) == Or(Get(mission, "portals"), Arr(<<>>))

\* const loc = portal.location || portal.lat || portal.geometry
locOf(portal) ==
  Or(Or(Get(portal, "location"), Get(portal, "lat")), Get(portal, "geometry"))

\* the chain with its third branch reading loc instead of portal.geometry
resolveCoordsFromLoc(portal) ==
  LET loc == locOf(portal)
  IN  IF Truthy(loc) /\ TypeofNumber(Get(loc, "latitude"))
                     /\ TypeofNumber(Get(loc, "longitude"))
      THEN [lat |-> Get(loc, "latitude"), lng |-> Get(loc, "longitude")]
      ELSE IF Truthy(loc) /\ TypeofNumber(Get(loc, "lat"))
                          /\ TypeofNumber(Get(loc, "lng"))
      THEN [lat |-> Get(loc, "lat"), lng |-> Get(loc, "lng")]
      ELSE IF Truthy(loc) /\ Get(loc, "type") = Str("Point")
                          /\ IsArray(Get(loc, "coordinates"))
      THEN [lat |-> At(Get(loc, "coordinates"), 1),
            lng |-> At(Get(loc, "coordinates"), 0)]
      ELSE [lat |-> Undef, lng |-> Undef]

\* the if / else-if chain assigning lat and lng (undefined when no branch runs)
resolveCoords(portal) ==
  LET loc == locOf(portal)
      geometry == Get(portal, "geometry")
  IN  IF Truthy(loc) /\ TypeofNumber(Get(loc, "latitude"))
                     /\ TypeofNumber(Get(loc, "longitude"))
      THEN [lat |-> Get(loc, "latitude"), lng |-> Get(loc, "longitude")]
      ELSE IF Truthy(loc) /\ TypeofNumber(Get(loc, "lat"))
                          /\ TypeofNumber(Get(loc, "lng"))
      THEN [lat |-> Get(loc, "lat"), lng |-> Get(loc, "lng")]
      ELSE IF Truthy(geometry) /\ Get(geometry, "type") = Str("Point")
                               /\ IsArray(Get(geometry, "coordinates"))
      THEN [lat |-> At(Get(geometry, "coordinates"), 1),
            lng |-> At(Get(geometry, "coordinates"), 0)]
      ELSE [lat |-> Undef, lng |-> Undef]

\* the guard of the push with the longitude test left out
coordsNumericLatOnly(c) == TypeofNumber(c.lat)

\* typeof lat === 'number' && typeof lng === 'number'
coordsNumeric(c) == TypeofNumber(c.lat) /\ TypeofNumber(c.lng)

\* the placeholder numbered by position among the kept features of the run
portalTitleByKept(portal, m, p) ==
  Or(Get(portal, "title"),
     Str("Portal " \o ToString(m + 1) \o "-" \o ToString(Len(features) + 1)))

\* portal.title || `Portal ${mi+1}-${pi+1}`
portalTitle(portal, m, p) ==
  Or(Get(portal, "title"),
     Str("Portal " \o ToString(m + 1) \o "-" \o ToString(p + 1)))

\* the missions array and the portals array being iterated
missions == Get(json, "missions").v
mission == missions[mi + 1]
portals == portalsOf(mission).v
portal == portals[pi + 1]

\* extractFeatures up to the start of the missions loop
ExtractFeatures ==
  /\ pc = "call"
  /\ UNCHANGED <<kmlI, allPlacemarks, file, json, pi, written, exitCode>>
  /\ IF ~Truthy(json)
     THEN pc' = "returned" /\ features' = <<>> /\ mi' = mi
     ELSE IF isFeatureCollection(json)
     THEN pc' = "returned" /\ features' = passthrough(json) /\ mi' = mi
     ELSE IF isNonEmptyArray(json) /\ Nullish(At(json, 0))
     THEN pc' = "threw" /\ features' = <<>> /\ mi' = mi
     ELSE IF isNonEmptyArray(json) /\ isFlatList(json)
     THEN IF \E i \in DOMAIN json.v : Nullish(json.v[i])
          THEN /\ pc' = "threw"
               /\ LET bad == CHOOSE i \in DOMAIN json.v :
                               /\ Nullish(json.v[i])
                               /\ \A h \in 1..(i - 1) : ~Nullish(json.v[h])
                  IN  features' = [i \in 1..(bad - 1) |-> flatFeature(json.v[i])]
               /\ mi' = mi
          ELSE /\ pc' = "returned"
               /\ features' = [i \in DOMAIN json.v |-> flatFeature(json.v[i])]
               /\ mi' = mi
     ELSE IF IsArray(Get(json, "missions"))
     THEN pc' = "mission" /\ features' = <<>> /\ mi' = 0
     ELSE pc' = "returned" /\ features' = <<>> /\ mi' = mi

\* json.missions.forEach((mission, mi) => { (mission.portals || []).forEach(
BeginMission ==
  /\ pc = "mission"
  /\ mi < Len(missions)
  /\ UNCHANGED <<kmlI, allPlacemarks, file, json, features, mi, written, exitCode>>
  /\ IF Nullish(mission)
     THEN pc' = "threw" /\ pi' = pi
     ELSE IF ~IsArray(portalsOf(mission))
     THEN pc' = "threw" /\ pi' = pi
     ELSE pc' = "portal" /\ pi' = 0

\* the body of the portals callback for portal pi of mission mi
PortalStep ==
  /\ pc = "portal"
  /\ pi < Len(portals)
  /\ UNCHANGED <<kmlI, allPlacemarks, file, json, mi, written, exitCode>>
  /\ IF Nullish(portal)
     THEN pc' = "threw" /\ features' = features /\ pi' = pi
     ELSE LET c == resolveCoords(portal)
          IN  /\ pc' = "portal"
              /\ pi' = pi + 1
              /\ features' = IF coordsNumeric(c)
                             THEN Append(features,
                                         Feature(portalTitle(portal, mi, pi), c.lng, c.lat))
                             ELSE features

\* the portals forEach of mission mi is exhausted
EndMission ==
  /\ pc = "portal"
  /\ pi = Len(portals)
  /\ pc' = "mission"
  /\ mi' = mi + 1
  /\ UNCHANGED <<kmlI, allPlacemarks, file, json, features, pi, written, exitCode>>

\* the missions forEach is exhausted: return features
ReturnFeatures ==
  /\ pc = "mission"
  /\ mi = Len(missions)
  /\ pc' = "returned"
  /\ UNCHANGED <<kmlI, allPlacemarks, file, json, features, mi, pi, written, exitCode>>

(* ---------------- the main script ---------------- *)

\* loadJSON: readFileSync and JSON.parse inside try, process.exit(1) in catch
LoadJSON ==
  /\ pc = "start"
  /\ UNCHANGED <<kmlI, allPlacemarks, file, features, mi, pi, written>>
  /\ IF file.status = "ok"
     THEN json' = file.content /\ pc' = "call" /\ exitCode' = exitCode
     ELSE json' = json /\ pc' = "exited" /\ exitCode' = 1

\* the guard comparing with < instead of ===
isEmptyNever(fs) == Len(fs) < 0

\* features.length === 0
isEmpty(fs) == Len(fs) = 0

\* the empty-result guard: console.error and process.exit(1)
EmptyResult ==
  /\ pc = "returned"
  /\ isEmpty(features)
  /\ pc' = "exited"
  /\ exitCode' = 1
  /\ UNCHANGED <<kmlI, allPlacemarks, file, json, features, mi, pi, written>>

\* the template is built and writeFileSync stores map.html
WriteOut ==
  /\ pc = "returned"
  /\ ~isEmpty(features)
  /\ written' = TRUE
  /\ pc' = "done"
  /\ UNCHANGED <<kmlI, allPlacemarks, file, json, features, mi, pi, exitCode>>

\* an exception leaving extractFeatures is caught nowhere: the process dies
UncaughtError ==
  /\ pc = "threw"
  /\ pc' = "exited"
  /\ exitCode' = 1
  /\ UNCHANGED <<kmlI, allPlacemarks, file, json, features, mi, pi, written>>

(* ---------------- json-to-kml.js ---------------- *)
\* allPlacemarks is the string being built, kept as the sequence of its
\* pieces: a Point placemark, a LineString placemark, or the "\n" of a join.
\* The <Style> blocks are built by a separate loop that feeds neither.

\* x?.f
OptGet(x, f) == IF Nullish(x) THEN Undef ELSE Get(x, f)

\* ${x} in a template literal, for a number or undefined
interp(x) == IF x.k = "number" THEN ToString(x.v) ELSE "undefined"

\* esc on the strings of the explored inputs: only "A&B<C>" holds & < or >
esc(s) == IF s = "A&B<C>" THEN "A&amp;B&lt;C&gt;" ELSE s

\* `${lon},${lat},0`
coordText(lon, lat) == interp(lon) \o "," \o interp(lat) \o ",0"

\* descParts joined and wrapped, the empty string when there are none
\* (imageUrl and guid are strings when present)
description(p) ==
  LET img == IF Truthy(Get(p, "imageUrl"))
             THEN "<img src=\"" \o esc(Get(p, "imageUrl").v) \o "\" width=\"240\"/>"
             ELSE ""
      guid == IF Truthy(Get(p, "guid"))
              THEN "<p><b>GUID:</b> " \o esc(Get(p, "guid").v) \o "</p>"
              ELSE ""
  IN  IF img \o guid = "" THEN ""
      ELSE "<description><![CDATA[" \o img \o guid \o "]]></description>"

\* pointPlacemark: the empty string, or one Placemark with a Point
pointPlacemark(p, styleUrl) ==
  LET lat == OptGet(OptGet(p, "location"), "latitude")
      lon == OptGet(OptGet(p, "location"), "longitude")
  IN  IF ~TypeofNumber(lat) \/ ~TypeofNumber(lon) THEN <<>>
      ELSE <<[kind |-> "Point",
              name |-> esc(Or(Get(p, "title"), Str("Untitled")).v),
              description |-> description(p),
              styleUrl |-> styleUrl,
              coordinates |-> coordText(lon, lat)]>>

\* the coords callback keeping a portal whose latitude alone is a number
routeCoordLatOnly(p) ==
  LET lat == OptGet(OptGet(p, "location"), "latitude")
      lon == OptGet(OptGet(p, "location"), "longitude")
  IN  IF TypeofNumber(lat) THEN <<[lat |-> lat, lon |-> lon]>> ELSE <<>>

\* the coords callback followed by filter(Boolean): {lat, lon} or nothing
routeCoord(p) ==
  LET lat == OptGet(OptGet(p, "location"), "latitude")
      lon == OptGet(OptGet(p, "location"), "longitude")
  IN  IF TypeofNumber(lat) /\ TypeofNumber(lon)
      THEN <<[lat |-> lat, lon |-> lon]>>
      ELSE <<>>

RECURSIVE joinWith(_, _)
\* strings.join(sep)
joinWith(strings, sep) ==
  IF Len(strings) = 0 THEN ""
  ELSE IF Len(strings) = 1 THEN strings[1]
  ELSE strings[1] \o sep \o joinWith(Tail(strings), sep)

\* linePlacemark: the empty string, or one Placemark with a LineString
linePlacemark(coords, name, styleUrl) ==
  IF Len(coords) < 2 THEN <<>>
  ELSE <<[kind |-> "LineString",
          name |-> esc(name),
          styleUrl |-> styleUrl,
          coordinates |->
            joinWith([c \in DOMAIN coords |-> coordText(coords[c].lon, coords[c].lat)],
                     " ")]>>

RECURSIVE joinPlacemarks(_, _, _)
\* portals.map(p => pointPlacemark(p, stylePointId)).join('\n'), from portal q
joinPlacemarks(ps, styleUrl, q) ==
  IF q > Len(ps) THEN <<>>
  ELSE pointPlacemark(ps[q], styleUrl)
       \o (IF q < Len(ps) THEN <<[kind |-> "NL"]>> ELSE <<>>)
       \o joinPlacemarks(ps, styleUrl, q + 1)

RECURSIVE flatMap(_, _)
\* portals.map(...).filter(Boolean) of the route
flatMap(ps, q) ==
  IF q > Len(ps) THEN <<>> ELSE routeCoord(ps[q]) \o flatMap(ps, q + 1)

\* const missions = Array.isArray(data.missions) ? data.missions : []
kmlMissions == IF IsArray(Get(json, "missions")) THEN Get(json, "missions").v ELSE <<>>

\* `m${i}-point` and `m${i}-line`
stylePointId(n) == "m" \o ToString(n) \o "-point"
styleLineId(n) == "m" \o ToString(n) \o "-line"

\* m.missionTitle || `Mission ${String(i+1).padStart(2,'0')}`, for a string title
missionTitle(m, n) ==
  Or(Get(m, "missionTitle"),
     Str("Mission " \o (IF n + 1 < 10 THEN "0" ELSE "") \o ToString(n + 1))).v

\* Array.isArray(m.portals) ? m.portals : []
kmlPortals(m) == IF IsArray(Get(m, "portals")) THEN Get(m, "portals").v ELSE <<>>

\* the try block up to the call of buildKml: readFileSync and JSON.parse
KmlLoad ==
  /\ pc = "kmlStart"
  /\ UNCHANGED <<file, features, mi, pi, written, kmlI, allPlacemarks>>
  /\ IF file.status = "ok"
     THEN json' = file.content /\ pc' = "buildKml" /\ exitCode' = exitCode
     ELSE json' = json /\ pc' = "exited" /\ exitCode' = 1

\* buildKml up to the missions loop; data.missionSetName of null is caught
BuildKml ==
  /\ pc = "buildKml"
  /\ UNCHANGED <<file, json, features, mi, pi, written>>
  /\ IF Nullish(json)
     THEN pc' = "exited" /\ exitCode' = 1 /\ kmlI' = kmlI
          /\ allPlacemarks' = allPlacemarks
     ELSE pc' = "kmlMission" /\ exitCode' = exitCode /\ kmlI' = 0
          /\ allPlacemarks' = <<>>

\* the body of missions.forEach for mission i; m.missionTitle of null is caught
\* (the dash of the route name is U+2014 in the source, written - here)
KmlMission ==
  /\ pc = "kmlMission"
  /\ kmlI < Len(kmlMissions)
  /\ UNCHANGED <<file, json, features, mi, pi, written>>
  /\ LET m == kmlMissions[kmlI + 1]
     IN  IF Nullish(m)
         THEN pc' = "exited" /\ exitCode' = 1 /\ kmlI' = kmlI
              /\ allPlacemarks' = allPlacemarks
         ELSE /\ pc' = pc
              /\ exitCode' = exitCode
              /\ kmlI' = kmlI + 1
              /\ allPlacemarks' =
                   allPlacemarks
                   \o joinPlacemarks(kmlPortals(m), stylePointId(kmlI), 1)
                   \o linePlacemark(flatMap(kmlPortals(m), 1),
                                    missionTitle(m, kmlI) \o " - Route",
                                    styleLineId(kmlI))

\* the loop is done: the document is returned and writeFileSync stores it
KmlWrite ==
  /\ pc = "kmlMission"
  /\ kmlI = Len(kmlMissions)
  /\ pc' = "done"
  /\ written' = TRUE
  /\ UNCHANGED <<file, json, features, mi, pi, exitCode, kmlI, allPlacemarks>>

(* ---------------- explored inputs ---------------- *)

\* portal.title, absent when undefined
Titles == {Undef, Str(""), Str("T")}

\* portal.location
Locations ==
  {Undef, Null,
   Obj([latitude |-> Num(11), longitude |-> Num(12)]),
   Obj([lat |-> Num(13), lng |-> Num(14)]),
   Obj([latitude |-> Num(11)]),
   Obj([latitude |-> Str("11"), longitude |-> Num(12)]),
   Obj([type |-> Str("Point"), coordinates |-> Arr(<<Num(15), Num(16)>>)])}

\* portal.lat
Lats == {Undef, Num(0), Num(17)}

\* portal.geometry
Geometries ==
  {Undef,
   Obj([type |-> Str("Point"), coordinates |-> Arr(<<Num(22), Num(21)>>)]),
   Obj([type |-> Str("Point"), coordinates |-> Arr(<<Num(22), Num(21), Num(0)>>)]),
   Obj([type |-> Str("Point"), coordinates |-> Arr(<<Str("22"), Num(21)>>)]),
   Obj([type |-> Str("Point"), coordinates |-> Arr(<<Num(22)>>)]),
   Obj([type |-> Str("Point"), coordinates |-> Str("22,21")]),
   Obj([type |-> Str("LineString"), coordinates |-> Arr(<<Num(22), Num(21)>>)]),
   Obj([latitude |-> Num(23), longitude |-> Num(24)])}

\* every portal built from the field values above, and non-object entries
PortalsAll ==
  {Prune([title |-> t, location |-> l, lat |-> a, geometry |-> g]) :
     t \in Titles, l \in Locations, a \in Lats, g \in Geometries}
  \cup {Null, Num(5), Str("p")}

\* a portal that is kept and gets a placeholder title
KeptPortal == Obj([location |-> Obj([latitude |-> Num(11), longitude |-> Num(12)])])

\* a kept portal and a dropped one
PortalsCore == {KeptPortal, EmptyObj}

\* missions whose portals field is not a sequence of portals
MissionsOdd ==
  {Null, EmptyObj, Obj([portals |-> Null]), Obj([portals |-> Num(0)]),
   Obj([portals |-> Num(5)]), Obj([portals |-> Str("ab")]),
   Obj([portals |-> EmptyObj])}

KeptMission == Obj([portals |-> Arr(<<KeptPortal>>)])

MissionsCore ==
  {Obj([portals |-> Arr(ps)]) : ps \in SeqUpTo(PortalsCore, MaxPortals)}
  \cup {Null, Obj([portals |-> Num(5)])}

\* mission sets: several missions of core portals; one odd mission alone,
\* before or after a mission with a kept portal; one mission holding any
\* portal alone or followed by a kept one
NestedInputs ==
  {Obj([missions |-> Arr(ms)]) : ms \in SeqUpTo(MissionsCore, MaxMissions)}
  \cup {Obj([missions |-> Arr(ms)]) :
          ms \in UNION {{<<m>>, <<m, KeptMission>>, <<KeptMission, m>>} : m \in MissionsOdd}}
  \cup {Obj([missions |-> Arr(<<Obj([portals |-> Arr(<<p>>)])>>)]) : p \in PortalsAll}
  \cup {Obj([missions |-> Arr(<<Obj([portals |-> Arr(<<p, KeptPortal>>)])>>)]) :
          p \in PortalsAll}

\* elements of a top-level array
FlatElems ==
  {Prune([title |-> t, name |-> n, lat |-> a, lng |-> g]) :
     t \in {Undef, Str(""), Str("A")}, n \in {Undef, Str("N")},
     a \in {Undef, Num(31), Str("31")}, g \in {Undef, Num(32)}}
  \cup {Null, Num(5)}

\* a titled point, an untitled point, a point without lng, an empty object
\* and null
FlatPoint == Obj([lat |-> Num(31), lng |-> Num(32), title |-> Str("A")])
FlatCore ==
  {FlatPoint, Obj([lat |-> Num(31), lng |-> Num(32)]), Obj([lat |-> Num(31)]),
   EmptyObj, Null}

\* top-level arrays: sequences of core elements; any element alone, before
\* or after a titled point
FlatInputs ==
  {Arr(es) : es \in SeqUpTo(FlatCore, MaxFlat)}
  \cup {Arr(es) : es \in UNION {{<<e>>, <<e, FlatPoint>>, <<FlatPoint, e>>} : e \in FlatElems}}

\* elements of a features array handed through
FeatureElems ==
  {Feature(Str("F"), Num(42), Num(41)), Feature(Undef, Undef, Num(41)),
   EmptyObj, Null}

\* objects with type, features and missions fields
ObjectInputs ==
  {Prune([type |-> ty, features |-> fs, missions |-> ms]) :
     ty \in {Undef, Str("FeatureCollection"), Str("Feature")},
     fs \in {Undef, Null, EmptyObj}
            \cup {Arr(es) : es \in SeqUpTo(FeatureElems, MaxFeatures)},
     ms \in {Undef, Null, Num(5), Str("m"), EmptyObj,
             Arr(<<KeptMission>>)}}

ScalarInputs == {Null, Bool(TRUE), Bool(FALSE), Num(0), Num(1), Str(""), Str("abc")}

\* the values JSON.parse can return
ParsedInputs == ScalarInputs \cup ObjectInputs \cup FlatInputs \cup NestedInputs

\* the arguments extractFeatures is applied to
Inputs == ParsedInputs \cup {Undef}

\* points.json: unreadable, not JSON, or the text of a JSON value
NoFile == [status |-> "none"]
Files ==
  {[status |-> "unreadable"], [status |-> "malformed"]}
  \cup {[status |-> "ok", content |-> j] : j \in ParsedInputs}

\* portals of the KML input: two located ones and one without location
KmlPortalA ==
  Obj([title |-> Str("A&B<C>"),
       location |-> Obj([latitude |-> Num(11), longitude |-> Num(12)])])
KmlPortalB == Obj([location |-> Obj([latitude |-> Num(-13), longitude |-> Num(14)])])
KmlPortalsCore == {KmlPortalA, KmlPortalB, EmptyObj}

\* portals with every kind of location, and non-object entries
KmlPortalsAll ==
  {Prune([title |-> t, guid |-> t, location |-> l]) :
     t \in {Undef, Str("T")},
     l \in {Undef, Null, Num(5),
            Obj([latitude |-> Num(15), longitude |-> Num(16)]),
            Obj([latitude |-> Num(15)]),
            Obj([longitude |-> Num(16)]),
            Obj([latitude |-> Str("15"), longitude |-> Num(16)]),
            Obj([latitude |-> Num(15), longitude |-> Null]),
            Obj([lat |-> Num(15), lng |-> Num(16)])}}
  \cup {Null, Num(5), Str("p")}

KmlMissionsCore ==
  {Obj([portals |-> Arr(ps)]) : ps \in SeqUpTo(KmlPortalsCore, MaxPortals)}

\* missions that are no object or whose portals field is no sequence
KmlMissionsOdd ==
  {Null, Num(5), EmptyObj, Obj([portals |-> Num(5)]), Obj([portals |-> Null]),
   Obj([missionTitle |-> Str("Walk"), portals |-> Arr(<<KmlPortalB, KmlPortalA>>)])}

\* mission sets: several core missions; one odd mission alone, before or
\* after a route of two portals; one mission holding any portal alone,
\* beside one located portal, or between two located portals
KmlRoute == Obj([portals |-> Arr(<<KmlPortalA, KmlPortalB>>)])
KmlInputs ==
  {Obj([missions |-> Arr(ms)]) : ms \in SeqUpTo(KmlMissionsCore, MaxMissions)}
  \cup {Obj([missions |-> Arr(ms)]) :
          ms \in UNION {{<<m>>, <<m, KmlRoute>>, <<KmlRoute, m>>} : m \in KmlMissionsOdd}}
  \cup {Obj([missions |-> Arr(<<Obj([portals |-> Arr(ps)])>>)]) :
          ps \in UNION {{<<p>>, <<p, KmlPortalA>>, <<KmlPortalA, p>>,
                         <<KmlPortalA, p, KmlPortalB>>} : p \in KmlPortalsAll}}
  \cup {Null, Num(5), EmptyObj, Obj([missions |-> Num(5)]), Arr(<<>>)}

\* the input file of json-to-kml.js
KmlFiles ==
  {[status |-> "unreadable"], [status |-> "malformed"]}
  \cup {[status |-> "ok", content |-> j] : j \in KmlInputs}

(* ---------------- specifications ---------------- *)

\* extractFeatures applied to an argument
Init ==
  /\ file = NoFile
  /\ json \in Inputs
  /\ pc = "call"
  /\ features = <<>>
  /\ mi = 0
  /\ pi = 0
  /\ written = FALSE
  /\ exitCode = 0
  /\ kmlI = 0
  /\ allPlacemarks = <<>>

Next ==
  \/ ExtractFeatures
  \/ BeginMission
  \/ PortalStep
  \/ EndMission
  \/ ReturnFeatures

Spec == Init /\ [][Next]_vars

\* one run of node build-map.js
PipelineInit ==
  /\ file \in Files
  /\ json = Undef
  /\ pc = "start"
  /\ features = <<>>
  /\ mi = 0
  /\ pi = 0
  /\ written = FALSE
  /\ exitCode = 0
  /\ kmlI = 0
  /\ allPlacemarks = <<>>

PipelineNext ==
  \/ LoadJSON
  \/ ExtractFeatures
  \/ BeginMission
  \/ PortalStep
  \/ EndMission
  \/ ReturnFeatures
  \/ EmptyResult
  \/ WriteOut
  \/ UncaughtError

PipelineSpec == PipelineInit /\ [][PipelineNext]_vars

\* one run of node json-to-kml.js
KmlInit ==
  /\ file \in KmlFiles
  /\ json = Undef
  /\ pc = "kmlStart"
  /\ features = <<>>
  /\ mi = 0
  /\ pi = 0
  /\ written = FALSE
  /\ exitCode = 0
  /\ kmlI = 0
  /\ allPlacemarks = <<>>

KmlNext ==
  \/ KmlLoad
  \/ BuildKml
  \/ KmlMission
  \/ KmlWrite

KmlSpec == KmlInit /\ [][KmlNext]_vars

(* ---------------- properties ---------------- *)

\* property access that yields undefined instead of raising on null/undefined
SafeGet(x, f) == IF Nullish(x) THEN Undef ELSE Get(x, f)

\* the three input shapes, as the specification words them
InputIsFeatureCollection(j) ==
  SafeGet(j, "type") = Str("FeatureCollection") /\ IsArray(SafeGet(j, "features"))

InputIsFlatList(j) ==
  IsArray(j) /\ Len(j.v) > 0 /\ TypeofNumber(SafeGet(j.v[1], "lat"))

InputIsNested(j) ==
  /\ ~InputIsFeatureCollection(j)
  /\ ~InputIsFlatList(j)
  /\ IsArray(SafeGet(j, "missions"))

\* a feature carries a coordinates pair of two numbers
HasNumericCoords(f) ==
  LET c == SafeGet(SafeGet(f, "geometry"), "coordinates")
  IN  IsArray(c) /\ TypeofNumber(At(c, 0)) /\ TypeofNumber(At(c, 1))

TitleOf(f) == SafeGet(SafeGet(f, "properties"), "title")

CoordsOf(f) == SafeGet(SafeGet(f, "geometry"), "coordinates")

\* C1: extractFeatures never throws: no input value drives the call into an
\* exception, whatever its elements, missions or portals entries are.
C1_NeverThrows == pc # "threw"

\* C2: whichever shape rule matched, every feature of the returned sequence
\* has a numeric longitude and a numeric latitude.
C2_AllRulesNumeric ==
  pc = "returned" => \A i \in DOMAIN features : HasNumericCoords(features[i])

\* C2 (amended): for nested mission/portal input every feature collected,
\* at any point of the traversal and in the returned sequence, has a numeric
\* longitude and a numeric latitude; a portal lacking either is not collected.
C2_NestedNumeric ==
  InputIsNested(json) => \A i \in DOMAIN features : HasNumericCoords(features[i])

\* in mission 1 two portals are done: one was dropped, the other was kept
C2_Witness ==
  /\ InputIsNested(json)
  /\ pc = "portal" /\ mi = 0 /\ pi = 2
  /\ Len(features) = 1

\* C3: a FeatureCollection input with a features sequence returns exactly
\* that sequence, unvalidated, and never enters another rule, even when the
\* input also has a missions sequence.
C3_Passthrough ==
  InputIsFeatureCollection(json) =>
    /\ pc \in {"call", "returned"}
    /\ pc = "returned" => features = Get(json, "features").v

\* a FeatureCollection that also has missions returned its two unvalidated
\* features, one of them null
C3_Witness ==
  /\ InputIsFeatureCollection(json)
  /\ IsArray(Get(json, "missions"))
  /\ pc = "returned"
  /\ Len(features) = 2
  /\ features[1] = Null

\* the title the specification gives a flat-list element: title if present,
\* else name if present, else the empty string
FlatTitleIfPresent(e) ==
  IF e.k = "object" /\ "title" \in DOMAIN e.v THEN e.v.title
  ELSE IF e.k = "object" /\ "name" \in DOMAIN e.v THEN e.v.name
  ELSE Str("")

\* C4: a non-empty sequence whose first element has a numeric lat returns one
\* feature per element, in order, with coordinates [lng, lat] of the element
\* and title = title if present, else name if present, else ""; no element
\* is skipped.
C4_FlatList ==
  (InputIsFlatList(json) /\ pc # "call") =>
    /\ pc = "returned"
    /\ Len(features) = Len(json.v)
    /\ \A i \in DOMAIN json.v :
         features[i] = Feature(FlatTitleIfPresent(json.v[i]),
                               SafeGet(json.v[i], "lng"),
                               SafeGet(json.v[i], "lat"))

\* the portals of a mission, empty when the field is absent or not a sequence
PortalsOrEmpty(m) ==
  IF IsArray(SafeGet(m, "portals")) THEN SafeGet(m, "portals").v ELSE <<>>

\* the feature of one portal, or nothing when its coordinates do not resolve
FeatureOrNone(p, m, q) ==
  IF ~Nullish(p) /\ coordsNumeric(resolveCoords(p))
  THEN <<Feature(portalTitle(p, m, q), resolveCoords(p).lng, resolveCoords(p).lat)>>
  ELSE <<>>

RECURSIVE RowOf(_, _, _)
\* the features of portals q.. of mission number m
RowOf(ps, m, q) ==
  IF q >= Len(ps) THEN <<>>
  ELSE FeatureOrNone(ps[q + 1], m, q) \o RowOf(ps, m, q + 1)

RECURSIVE RowMajor(_, _)
\* the features of missions m.. in row-major order
RowMajor(ms, m) ==
  IF m >= Len(ms) THEN <<>>
  ELSE RowOf(PortalsOrEmpty(ms[m + 1]), m, 0) \o RowMajor(ms, m + 1)

\* C5: for nested input the call returns the row-major traversal restricted
\* to the portals whose coordinates resolve; a portal without resolvable
\* coordinates does not stop the portals and missions after it.
C5_RowMajor ==
  (InputIsNested(json) /\ pc \in {"returned", "threw"}) =>
    /\ pc = "returned"
    /\ features = RowMajor(Get(json, "missions").v, 0)

\* C6: whenever the traversal of a nested input collects a feature, it is
\* appended for the portal at input position (mi, pi), and its title is
\* portal.title when truthy and "Portal {mi+1}-{pi+1}" otherwise, numbered
\* by input position and not by position among the kept features.
C6_Title ==
  [][(InputIsNested(json) /\ features' # features) =>
       /\ pc = "portal"
       /\ Len(features') = Len(features) + 1
       /\ SubSeq(features', 1, Len(features)) = features
       /\ TitleOf(features'[Len(features')]) =
            IF Truthy(SafeGet(portal, "title"))
            THEN Get(portal, "title")
            ELSE Str("Portal " \o ToString(mi + 1) \o "-" \o ToString(pi + 1))]_vars

\* the first portal of mission 1 was dropped and the second is "Portal 1-2"
C6_Witness ==
  /\ InputIsNested(json)
  /\ pc = "portal" /\ mi = 0 /\ pi = 2
  /\ Len(features) = 1
  /\ TitleOf(features[1]) = Str("Portal 1-2")

\* C7: map.html is written only in a run whose file was read and parsed and
\* whose normalization returned at least one feature; a run that fails to
\* read or parse, or gets zero features, exits non-zero without writing.
C7_WriteOnlyWithFeatures ==
  /\ written => /\ file.status = "ok"
                /\ pc = "done"
                /\ Len(features) >= 1
                /\ exitCode = 0
  /\ pc = "done" => written
  /\ pc = "exited" => exitCode # 0 /\ ~written
  /\ file.status # "ok" => pc \in {"start", "exited"}
  /\ (pc = "returned" /\ Len(features) = 0) => ENABLED EmptyResult /\ ~ENABLED WriteOut

\* a run that wrote map.html
C7_Witness == written /\ pc = "done" /\ Len(features) >= 1

\* an input matching none of the three shapes, as the specification lists them
InputIsUnrecognized(j) ==
  \/ Nullish(j)
  \/ j.k \in {"boolean", "number", "string"}
  \/ j.k = "object" /\ ~InputIsFeatureCollection(j) /\ ~IsArray(Get(j, "missions"))
  \/ IsArray(j) /\ Len(j.v) > 0 /\ ~TypeofNumber(SafeGet(j.v[1], "lat"))

\* C8: an input matching none of the three shapes yields an empty sequence,
\* not an error.
C8_UnrecognizedEmpty ==
  (InputIsUnrecognized(json) /\ pc # "call") => pc = "returned" /\ features = <<>>

\* C9: a mission whose portals field is absent or not a sequence is treated
\* as having no portals: the traversal never dies at such a mission.
C9_NonSequencePortals ==
  ~ /\ InputIsNested(json)
    /\ pc = "threw"
    /\ ~Nullish(mission)
    /\ ~IsArray(Get(mission, "portals"))

\* the single location source of a portal: location, else lat, else geometry
SourceOf(p) ==
  IF Truthy(SafeGet(p, "location")) THEN SafeGet(p, "location")
  ELSE IF Truthy(SafeGet(p, "lat")) THEN SafeGet(p, "lat")
  ELSE SafeGet(p, "geometry")

\* the coordinates [lng, lat] the claim takes from the single source, by the
\* first of the three encodings that yields two numbers; <<>> when none does
CoordsFromSource(p) ==
  LET s == SourceOf(p)
      c == SafeGet(s, "coordinates")
  IN  IF TypeofNumber(SafeGet(s, "latitude")) /\ TypeofNumber(SafeGet(s, "longitude"))
      THEN <<SafeGet(s, "longitude"), SafeGet(s, "latitude")>>
      ELSE IF TypeofNumber(SafeGet(s, "lat")) /\ TypeofNumber(SafeGet(s, "lng"))
      THEN <<SafeGet(s, "lng"), SafeGet(s, "lat")>>
      ELSE IF /\ SafeGet(s, "type") = Str("Point")
              /\ IsArray(c) /\ Len(c.v) = 2
              /\ TypeofNumber(At(c, 0)) /\ TypeofNumber(At(c, 1))
      THEN <<At(c, 0), At(c, 1)>>
      ELSE <<>>

\* the first two encodings on the single source, the Point encoding on
\* portal.geometry itself with the first two entries of any coordinates array
CoordsFromSourceOrGeometry(p) ==
  LET s == SourceOf(p)
      c == SafeGet(SafeGet(p, "geometry"), "coordinates")
  IN  IF TypeofNumber(SafeGet(s, "latitude")) /\ TypeofNumber(SafeGet(s, "longitude"))
      THEN <<SafeGet(s, "longitude"), SafeGet(s, "latitude")>>
      ELSE IF TypeofNumber(SafeGet(s, "lat")) /\ TypeofNumber(SafeGet(s, "lng"))
      THEN <<SafeGet(s, "lng"), SafeGet(s, "lat")>>
      ELSE IF /\ SafeGet(SafeGet(p, "geometry"), "type") = Str("Point")
              /\ IsArray(c)
              /\ TypeofNumber(At(c, 0)) /\ TypeofNumber(At(c, 1))
      THEN <<At(c, 0), At(c, 1)>>
      ELSE <<>>

\* the coordinates collected by the step being taken, <<>> when none is
Collected ==
  IF Len(features') = Len(features) + 1
  THEN CoordsOf(features'[Len(features')]).v
  ELSE <<>>

\* C10: the step for a portal collects exactly the coordinates that the
\* first successful encoding yields on the single source location, else lat,
\* else geometry, the Point encoding wanting a 2-element numeric array.
C10_SingleSource ==
  [][(pc = "portal" /\ pi < Len(portals)) =>
       Collected = CoordsFromSource(portal)]_vars

\* C10 (amended): {latitude, longitude} and then {lat, lng} are tried on the
\* source location, else lat, else geometry; failing both, the Point encoding
\* is tried on portal.geometry itself, whatever the source was, and takes the
\* first two entries of its coordinates array; the step collects a feature
\* with these coordinates exactly when both are numbers.
C10_SourceThenGeometry ==
  [][(pc = "portal" /\ pi < Len(portals)) =>
       Collected = CoordsFromSourceOrGeometry(portal)]_vars

\* a portal with only a Point geometry gave a feature with its coordinates
C10_Witness ==
  /\ InputIsNested(json)
  /\ pc = "portal" /\ mi = 0 /\ pi = 1
  /\ portals[1] = Obj([geometry |->
         Obj([type |-> Str("Point"), coordinates |-> Arr(<<Num(22), Num(21)>>)])])
  /\ features = <<Feature(Str("Portal 1-1"), Num(22), Num(21))>>

\* the Point placemarks and the route placemarks of mission number n, as
\* their style ids tell
PointsOf(n) ==
  SelectSeq(allPlacemarks,
            LAMBDA t : t.kind = "Point" /\ t.styleUrl = "m" \o ToString(n) \o "-point")

RoutesOf(n) ==
  SelectSeq(allPlacemarks,
            LAMBDA t : t.kind = "LineString" /\ t.styleUrl = "m" \o ToString(n) \o "-line")

\* the portals of a mission with numeric location.latitude and
\* location.longitude, in mission order
LocatedPortals(m) ==
  SelectSeq(PortalsOrEmpty(m),
            LAMBDA p : /\ TypeofNumber(SafeGet(SafeGet(p, "location"), "latitude"))
                       /\ TypeofNumber(SafeGet(SafeGet(p, "location"), "longitude")))

\* lon,lat,0 of a located portal
PlacemarkText(p) ==
  ToString(p.v.location.v.longitude.v) \o "," \o ToString(p.v.location.v.latitude.v)
  \o ",0"

RECURSIVE RouteText(_)
\* the placemark texts of located portals, separated by one space
RouteText(ps) ==
  IF Len(ps) = 0 THEN ""
  ELSE PlacemarkText(ps[1]) \o (IF Len(ps) > 1 THEN " " ELSE "") \o RouteText(Tail(ps))

\* C11: in the KML builder, for every mission processed the Point placemarks
\* are exactly its portals with numeric location.latitude and
\* location.longitude, in mission order; the route of the mission lists
\* exactly these, in the same order, and a route placemark is emitted if and
\* only if there are at least two of them.
C11_RouteMatchesPoints ==
  pc \in {"kmlMission", "done"} =>
    \A n \in 0..(kmlI - 1) :
      LET located == LocatedPortals(kmlMissions[n + 1])
      IN  /\ Len(PointsOf(n)) = Len(located)
          /\ \A q \in DOMAIN located :
               PointsOf(n)[q].coordinates = PlacemarkText(located[q])
          /\ IF Len(located) >= 2
             THEN /\ Len(RoutesOf(n)) = 1
                  /\ RoutesOf(n)[1].coordinates = RouteText(located)
             ELSE RoutesOf(n) = <<>>

\* a written document whose first mission has a portal without location
\* between two located ones: two points and the route through both
C11_Witness ==
  /\ pc = "done" /\ written
  /\ Len(kmlMissions) = 1
  /\ Len(kmlPortals(kmlMissions[1])) = 3
  /\ Len(PointsOf(0)) = 2
  /\ Len(RoutesOf(0)) = 1
  /\ RoutesOf(0)[1].coordinates = "12,11,0 14,-13,0"

====
